---- MODULE Spec2Model ----
(***************************************************************************)
(* Verification model of kagglehub:                                        *)
(*   - the start-up resolver registrations of kagglehub/__init__.py and    *)
(*     the registry dispatch over them,                                    *)
(*   - the error helpers of kagglehub/exceptions.py,                       *)
(*   - the pipeline scoping helpers of kagglehub/dj.py.                    *)
(***************************************************************************)
EXTENDS Integers, Sequences, FiniteSets, TLC

VARIABLES
    pc,           \* number of registration statements of __init__.py already executed
    chains,       \* registry name -> sequence of registered resolver classes
    lastResolve,  \* record of the last registry resolve call (None before any)
    lastCall,     \* record of the last call of an exceptions.py helper (None before any)
    ctx,          \* value of the context variable scoped_pipeline_dir_ctx
    stack,        \* frames of the pipeline_scoped calls currently executing
    exc,          \* TRUE while an exception is propagating out of a finished call
    made_dirs,    \* directories created by os.makedirs in get_asset_path
    lastExit,     \* record of the last finished pipeline_scoped call
    lastAsset     \* record of the last get_asset_path call

registryVars == <<pc, chains, lastResolve>>
errorVars == <<lastCall>>
pipelineVars == <<ctx, stack, exc, made_dirs, lastExit, lastAsset>>
vars == <<pc, chains, lastResolve, lastCall, ctx, stack, exc, made_dirs, lastExit, lastAsset>>

\* Python's None and a present value, for variables holding an Optional.
None == << >>
Some(x) == << x >>
Val(o) == o[1]

(***************************************************************************)
(* kagglehub/__init__.py: resolver registrations, and the registry.        *)
(***************************************************************************)

Kinds == {"model", "dataset", "competition"}

\* The add_implementation statements of __init__.py, in program order.
Registrations ==
    << [registry |-> "model",       impl |-> "ModelHttpResolver"],
       [registry |-> "model",       impl |-> "ModelKaggleCacheResolver"],
       [registry |-> "model",       impl |-> "ModelColabCacheResolver"],
       [registry |-> "dataset",     impl |-> "DatasetHttpResolver"],
       [registry |-> "dataset",     impl |-> "DatasetKaggleCacheResolver"],
       [registry |-> "dataset",     impl |-> "DatasetColabCacheResolver"],
       [registry |-> "competition", impl |-> "CompetitionHttpResolver"],
       [registry |-> "competition", impl |-> "CompetitionKaggleCacheResolver"] >>

\* The module a resolver class is defined in (import line of __init__.py).
ResolverModule(impl) ==
    CASE impl \in {"ModelHttpResolver", "DatasetHttpResolver", "CompetitionHttpResolver"}
            -> "http_resolver"
      [] impl \in {"ModelKaggleCacheResolver", "DatasetKaggleCacheResolver",
                   "CompetitionKaggleCacheResolver"}
            -> "kaggle_cache_resolver"
      [] impl \in {"ModelColabCacheResolver", "DatasetColabCacheResolver"}
            -> "colab_cache_resolver"

StartupDone == pc = Len(Registrations)

\* registry.<kind>_resolver.add_implementation(impl): append to the chain.
add_implementation(ch, registry, impl) ==
    [ch EXCEPT ![registry] = Append(@, impl)]

\* The state of one environment cache as a resolver probes it.
MountStates == {"no_env", "absent", "empty", "mounted"}

Envs == [kaggle : MountStates, colab : MountStates]

\* What the network resolver's download ends with.
HttpOutcomes == {"path", "UnauthenticatedError", "NotFoundError", "BackendError",
                 "DataCorruptionError"}

Handles == [kind : Kinds, owner : {"alice"}, name : {"iris"}]

MountOf(impl, env) ==
    IF ResolverModule(impl) = "kaggle_cache_resolver" THEN env.kaggle ELSE env.colab

\* Resolver.is_supported(handle): the network resolver always answers true; a
\* cache resolver needs its environment marker and the artifact's mount path.
is_supported(impl, h, env) ==
    IF ResolverModule(impl) = "http_resolver"
    THEN TRUE
    ELSE MountOf(impl, env) \in {"empty", "mounted"}

\* Resolver.resolve(handle): a cache resolver returns a non-empty mount and
\* signals NotFoundError otherwise; the network resolver's result is `net`.
resolver_resolve(impl, h, env, net) ==
    IF ResolverModule(impl) = "http_resolver"
    THEN net
    ELSE IF MountOf(impl, env) = "mounted" THEN "path" ELSE "NotFoundError"

\* Registry resolve: walk the chain from position i in registration order,
\* probe each resolver, commit to the first supported one.
RECURSIVE registry_walk(_, _, _, _, _, _)
registry_walk(chain, i, probed, h, env, net) ==
    IF i > Len(chain)
    THEN [probed |-> probed, invoked |-> << >>, outcome |-> "UnsupportedEnvironmentError"]
    ELSE IF is_supported(chain[i], h, env)
         THEN [probed |-> Append(probed, chain[i]),
               invoked |-> << chain[i] >>,
               outcome |-> resolver_resolve(chain[i], h, env, net)]
         ELSE registry_walk(chain, i + 1, Append(probed, chain[i]), h, env, net)

registry_resolve(ch, h, env, net) ==
    registry_walk(ch[h.kind], 1, << >>, h, env, net)

\* One add_implementation statement of __init__.py executes.
Register ==
    /\ pc < Len(Registrations)
    /\ chains' = add_implementation(chains, Registrations[pc + 1].registry,
                                    Registrations[pc + 1].impl)
    /\ pc' = pc + 1
    /\ UNCHANGED <<lastResolve, errorVars, pipelineVars>>

\* A download entry point resolves a handle through the registry of its kind.
Resolve ==
    /\ StartupDone
    /\ \E h \in Handles, env \in Envs, net \in HttpOutcomes :
          lastResolve' = Some([handle |-> h, env |-> env, net |-> net,
                               call |-> registry_resolve(chains, h, env, net)])
    /\ UNCHANGED <<pc, chains, errorVars, pipelineVars>>

Init ==
    /\ pc = 0
    /\ chains = [k \in Kinds |-> << >>]
    /\ lastResolve = None
    /\ lastCall = None
    /\ ctx = None
    /\ stack = << >>
    /\ exc = FALSE
    /\ made_dirs = {}
    /\ lastExit = None
    /\ lastAsset = None

NextRegistry == Register \/ Resolve

SpecRegistry == Init /\ [][NextRegistry]_vars

(***************************************************************************)
(* Claims about the registrations and the registry.                        *)
(***************************************************************************)

IsCache(impl) == ResolverModule(impl) \in {"kaggle_cache_resolver", "colab_cache_resolver"}
IsHttp(impl) == ResolverModule(impl) = "http_resolver"

\* C1: once start-up registration is over, in the chain of every resource kind
\* the HTTP resolver is the last registered entry, so every environment cache
\* resolver of that kind is registered before it.
C1_HttpRegisteredLast ==
    StartupDone =>
        \A k \in Kinds :
            /\ chains[k] # << >>
            /\ IsHttp(chains[k][Len(chains[k])])
            /\ \A i \in 1..Len(chains[k]) :
                  IsCache(chains[k][i]) =>
                      \E j \in (i + 1)..Len(chains[k]) : IsHttp(chains[k][j])

\* Position of the first cache resolver of the chain that reports itself
\* supported, 0 when none does.
FirstSupportedCache(chain, h, env) ==
    LET S == {i \in 1..Len(chain) : IsCache(chain[i]) /\ is_supported(chain[i], h, env)}
    IN  IF S = {} THEN 0 ELSE CHOOSE i \in S : \A j \in S : i <= j

\* Position of the first resolver of the chain that reports itself supported.
FirstSupported(chain, h, env) ==
    LET S == {i \in 1..Len(chain) : is_supported(chain[i], h, env)}
    IN  IF S = {} THEN 0 ELSE CHOOSE i \in S : \A j \in S : i <= j

\* C2: over the start-up chains, resolve calls resolve on the first supported
\* resolver only; with every environment cache resolver unsupported only the
\* HTTP resolver is invoked; with an environment cache resolver supported and
\* raising NotFoundError, resolve raises NotFoundError and the HTTP resolver
\* is never invoked.
C2_RegistryFallback ==
    lastResolve # None =>
        LET r == Val(lastResolve)
            h == r.handle
            env == r.env
            chain == chains[h.kind]
            call == r.call
            f == FirstSupported(chain, h, env)
            c == FirstSupportedCache(chain, h, env)
        IN  /\ f # 0 => call.invoked = << chain[f] >>
            /\ c = 0 => /\ Len(call.invoked) = 1
                        /\ IsHttp(call.invoked[1])
            /\ (c # 0 /\ resolver_resolve(chain[c], h, env, r.net) = "NotFoundError")
                  => /\ call.outcome = "NotFoundError"
                     /\ \A i \in 1..Len(call.invoked) : ~IsHttp(call.invoked[i])

(***************************************************************************)
(* kagglehub/exceptions.py: the raise-for-status wrappers and              *)
(* process_post_response.                                                  *)
(***************************************************************************)

UNAUTHORIZED == 401
FORBIDDEN == 403
NOT_FOUND == 404

Statuses == {200, 204, 302, 400, UNAUTHORIZED, FORBIDDEN, NOT_FOUND, 500}

\* The reason phrase the server sends with a status.
Reason(status) ==
    CASE status = 200 -> "OK"
      [] status = 204 -> "No Content"
      [] status = 302 -> "Found"
      [] status = 400 -> "Bad Request"
      [] status = UNAUTHORIZED -> "Unauthorized"
      [] status = FORBIDDEN -> "Forbidden"
      [] status = NOT_FOUND -> "Not Found"
      [] status = 500 -> "Internal Server Error"

\* A response object as the wrappers use it. `raises` is the exception family
\* of its raise_for_status(): "ClientResponseError" is what
\* aiohttp.ClientResponse (the annotated parameter type) raises,
\* "web_exceptions" an object raising the aiohttp.web_exceptions class of its
\* status. has_status_code: whether the object has a status_code attribute
\* (aiohttp.ClientResponse has `status` only).
Responses ==
    [status : Statuses,
     url : {"https://www.kaggle.com/api/v1/models/alice/iris/download"},
     raises : {"ClientResponseError", "web_exceptions"},
     has_status_code : BOOLEAN]

\* An outcome of a call: a normal return, or an exception with its class,
\* its message and (BackendError) its error_code.
Returned == [raised |-> FALSE, cls |-> "", message |-> "", error_code |-> None]
Raised(cls, message) ==
    [raised |-> TRUE, cls |-> cls, message |-> message, error_code |-> None]

\* BackendError(message, error_code=None)
BackendError(message, error_code) ==
    [raised |-> TRUE, cls |-> "BackendError", message |-> message, error_code |-> error_code]

\* ResourceHandle.to_url(): the canonical URL of the resource.
to_url(h) ==
    "https://www.kaggle.com/" \o
        (CASE h.kind = "model" -> "models/"
           [] h.kind = "dataset" -> "datasets/"
           [] h.kind = "competition" -> "competitions/")
        \o h.owner \o "/" \o h.name

\* response.raise_for_status(): nothing below 400; otherwise the exception of
\* the object's family, whose text carries the status and the reason.
raise_for_status(response) ==
    IF response.status < 400
    THEN Returned
    ELSE LET text == ToString(response.status) \o ", " \o Reason(response.status)
         IN  IF response.raises = "ClientResponseError"
             THEN Raised("aiohttp.ClientResponseError", text)
             ELSE Raised(CASE response.status = UNAUTHORIZED -> "web_exceptions.HTTPUnauthorized"
                           [] response.status = FORBIDDEN -> "web_exceptions.HTTPForbidden"
                           [] response.status = NOT_FOUND -> "web_exceptions.HTTPNotFound"
                           [] response.status = 400 -> "web_exceptions.HTTPBadRequest"
                           [] response.status = 500 -> "web_exceptions.HTTPInternalServerError",
                         text)

\* isinstance(e, aiohttp.web_exceptions.HTTPError): the 4xx and 5xx classes of
\* aiohttp.web_exceptions; aiohttp.ClientResponseError is not one of them.
IsWebHTTPError(e) ==
    e.raised /\ e.cls \in {"web_exceptions.HTTPUnauthorized", "web_exceptions.HTTPForbidden",
                           "web_exceptions.HTTPNotFound", "web_exceptions.HTTPBadRequest",
                           "web_exceptions.HTTPInternalServerError"}

\* resource_handle.to_url() if resource_handle else response.url
ResourceUrl(response, resource_handle) ==
    IF resource_handle # None THEN to_url(Val(resource_handle)) ELSE response.url

PermissionMessage(status, resource_url) ==
    ToString(status) \o " Client Error." \o "\n\n"
    \o "You don't have permission to access resource at URL: " \o resource_url
    \o "\nPlease make sure you are authenticated if you are trying to access a private resource or a resource"
    \o " requiring consent."

\* kaggle_api_raise_for_status(response, resource_handle)
kaggle_api_raise_for_status(response, resource_handle) ==
    LET e == raise_for_status(response)
    IN  IF ~e.raised
        THEN Returned
        ELSE IF e.cls \in {"web_exceptions.HTTPUnauthorized", "web_exceptions.HTTPForbidden"}
        THEN \* the message reads response.status_code
             IF ~response.has_status_code
             THEN Raised("AttributeError", "object has no attribute 'status_code'")
             ELSE Raised("KaggleApiHTTP1Error",
                         PermissionMessage(response.status,
                                           ResourceUrl(response, resource_handle)))
        ELSE IF e.cls = "web_exceptions.HTTPNotFound"
        THEN \* the message reads response.status_code, then resource_url, a local
             \* this branch never assigns
             IF ~response.has_status_code
             THEN Raised("AttributeError", "object has no attribute 'status_code'")
             ELSE Raised("UnboundLocalError", "local variable 'resource_url' referenced before assignment")
        ELSE e  \* no except clause matches: the error propagates as raised

\* colab_raise_for_status(response, resource_handle)
colab_raise_for_status(response, resource_handle) ==
    LET e == raise_for_status(response)
    IN  IF ~e.raised
        THEN Returned
        ELSE IF IsWebHTTPError(e)
        THEN IF response.status \in {UNAUTHORIZED, FORBIDDEN}
             THEN Raised("ColabHTTP1Error",
                         PermissionMessage(response.status,
                                           ResourceUrl(response, resource_handle)))
             ELSE Raised("ColabHTTP1Error", e.message)
        ELSE e  \* not a web_exceptions.HTTPError: the error propagates as raised

\* Values of the errorCode field: a JSON number, or a string of decimal digits.
ErrorCodeValues ==
    { [type |-> "int", int |-> 7, digits |-> << >>],
      [type |-> "int", int |-> 0, digits |-> << >>],
      [type |-> "str", int |-> 0, digits |-> <<4, 2>>] }

\* int(x) of Python for these values: the number itself, or the digits read in
\* base ten.
RECURSIVE DigitsValue(_)
DigitsValue(ds) ==
    IF ds = << >> THEN 0
    ELSE 10 * DigitsValue(SubSeq(ds, 1, Len(ds) - 1)) + ds[Len(ds)]

int(x) == IF x.type = "int" THEN x.int ELSE DigitsValue(x.digits)

\* Parsed POST response bodies: every field may be absent (None).
Bodies ==
    [code : {None} \cup {Some(c) : c \in {199, 200, 204, 299, 300, 404, 500}},
     message : {None, Some("quota exceeded")},
     error : {None, Some(""), Some("invalid token")},
     errorCode : {None} \cup {Some(v) : v \in ErrorCodeValues}]

\* dict.get(key, default)
Get(field, default) == IF field # None THEN Val(field) ELSE default

\* process_post_response with the upper limit of the success range included
\* (code 300 passes) and the empty-string test on `error` dropped.
process_post_response_loose(response) ==
    IF ~(200 <= Get(response.code, 200) /\ Get(response.code, 200) <= 300)
    THEN BackendError(Get(response.message, "No error message provided"), None)
    ELSE IF response.error # None
    THEN BackendError(Val(response.error),
                      IF response.errorCode # None
                      THEN Some(int(Val(response.errorCode)))
                      ELSE None)
    ELSE Returned

\* process_post_response(response)
process_post_response(response) ==
    IF ~(200 <= Get(response.code, 200) /\ Get(response.code, 200) < 300)
    THEN BackendError(Get(response.message, "No error message provided"), None)
    ELSE IF response.error # None /\ Val(response.error) # ""
    THEN BackendError(Val(response.error),
                      IF response.errorCode # None
                      THEN Some(int(Val(response.errorCode)))
                      ELSE None)
    ELSE Returned

OptHandles == {None} \cup {Some(h) : h \in Handles}

KaggleApiRaiseForStatus ==
    /\ \E response \in Responses, resource_handle \in OptHandles :
          lastCall' = Some([fn |-> "kaggle_api_raise_for_status",
                            response |-> Some(response), handle |-> resource_handle,
                            body |-> None,
                            outcome |-> kaggle_api_raise_for_status(response, resource_handle)])
    /\ UNCHANGED <<registryVars, pipelineVars>>

ColabRaiseForStatus ==
    /\ \E response \in Responses, resource_handle \in OptHandles :
          lastCall' = Some([fn |-> "colab_raise_for_status",
                            response |-> Some(response), handle |-> resource_handle,
                            body |-> None,
                            outcome |-> colab_raise_for_status(response, resource_handle)])
    /\ UNCHANGED <<registryVars, pipelineVars>>

ProcessPostResponse ==
    /\ \E response \in Bodies :
          lastCall' = Some([fn |-> "process_post_response",
                            response |-> None, handle |-> None,
                            body |-> Some(response),
                            outcome |-> process_post_response(response)])
    /\ UNCHANGED <<registryVars, pipelineVars>>

NextErrors == KaggleApiRaiseForStatus \/ ColabRaiseForStatus \/ ProcessPostResponse

SpecErrors == Init /\ [][NextErrors]_vars

(***************************************************************************)
(* Claims about the error helpers.                                         *)
(***************************************************************************)

WrapperCall(fns) == lastCall # None /\ Val(lastCall).fn \in fns

NotFoundMessage(status, resource_url) ==
    ToString(status) \o " Client Error." \o "\n\n"
    \o "Resource not found at URL: " \o resource_url
    \o "\nPlease make sure you specified the correct resource identifiers."

\* C3: on every response with status 401 or 403, with or without a handle,
\* both raise-for-status wrappers raise UnauthenticatedError whose message is
\* the guidance to authenticate or request access.
C3_UnauthenticatedOn401403 ==
    WrapperCall({"kaggle_api_raise_for_status", "colab_raise_for_status"}) =>
        LET c == Val(lastCall)
            r == Val(c.response)
        IN  r.status \in {UNAUTHORIZED, FORBIDDEN} =>
                /\ c.outcome.raised
                /\ c.outcome.cls = "UnauthenticatedError"
                /\ c.outcome.message = PermissionMessage(r.status, ResourceUrl(r, c.handle))

\* C4: on every response with status 404, with or without a handle,
\* kaggle_api_raise_for_status raises NotFoundError whose message names the
\* resource URL and asks to verify the resource identifiers.
C4_NotFoundOn404 ==
    WrapperCall({"kaggle_api_raise_for_status"}) =>
        LET c == Val(lastCall)
            r == Val(c.response)
        IN  r.status = NOT_FOUND =>
                /\ c.outcome.raised
                /\ c.outcome.cls = "NotFoundError"
                /\ c.outcome.message = NotFoundMessage(r.status, ResourceUrl(r, c.handle))

\* C5: on every non-2xx response whose status is not 401, 403 or 404, both
\* wrappers do not return normally and raise BackendError carrying the
\* server-supplied message.
C5_BackendErrorOnOtherStatus ==
    WrapperCall({"kaggle_api_raise_for_status", "colab_raise_for_status"}) =>
        LET c == Val(lastCall)
            r == Val(c.response)
        IN  (r.status \notin 200..299 /\ r.status \notin {UNAUTHORIZED, FORBIDDEN, NOT_FOUND}) =>
                /\ c.outcome.raised
                /\ c.outcome.cls = "BackendError"
                /\ c.outcome.message = ToString(r.status) \o ", " \o Reason(r.status)

\* C10: colab_raise_for_status raises ColabHTTP1Error on every response whose
\* raise_for_status signals an HTTP error and returns normally otherwise; the
\* message is the permission guidance exactly on 401 and 403 and the original
\* error's text on every other error status.
C10_ColabWrapsEveryHttpError ==
    WrapperCall({"colab_raise_for_status"}) =>
        LET c == Val(lastCall)
            r == Val(c.response)
            e == raise_for_status(r)
        IN  IF e.raised
            THEN /\ c.outcome.raised
                 /\ c.outcome.cls = "ColabHTTP1Error"
                 /\ c.outcome.message =
                        IF r.status \in {UNAUTHORIZED, FORBIDDEN}
                        THEN PermissionMessage(r.status, ResourceUrl(r, c.handle))
                        ELSE e.message
            ELSE ~c.outcome.raised

\* The body encodes an application-level error: a code outside 200..299, or
\* a non-empty error field.
AppError(body) ==
    \/ body.code # None /\ Val(body.code) \notin 200..299
    \/ body.error # None /\ Val(body.error) # ""

C7_ErrorCodeCarriedOnBothPaths ==
    (WrapperCall({"process_post_response"}) /\ Val(lastCall).outcome.raised) =>
        LET c == Val(lastCall)
            body == Val(c.body)
            onCodePath == body.code # None /\ Val(body.code) \notin 200..299
        IN  /\ c.outcome.cls = "BackendError"
            /\ c.outcome.message =
                   IF onCodePath
                   THEN Get(body.message, "No error message provided")
                   ELSE Val(body.error)
            /\ body.errorCode # None =>
                   c.outcome.error_code = Some(int(Val(body.errorCode)))
            /\ c.outcome.error_code = None => body.errorCode = None

(***************************************************************************)
(* kagglehub/dj.py: pipeline_scoped and get_asset_path.                    *)
(* A path is the sequence of its separators "/" and its names.             *)
(***************************************************************************)

\* Deepest nesting of pipeline_scoped calls explored.
MaxDepth == 2

\* '/kaggle/working'
DefaultDir == <<"/", "kaggle", "/", "working">>

\* module.__file__ of the module defining the wrapped function; None when the
\* module has no __file__ (an interactive session).
ModuleFiles ==
    { None,
      Some(<<"/", "p", "/", "code", "/", "m.py">>),
      Some(<<"/", "code", "/", "m.py">>) }

\* The arguments get_asset_path is called with.
AssetPaths ==
    { <<"x.bin">>,
      <<"sub", "/", "x.bin">>,
      <<"/", "etc", "/", "x.bin">> }

AllSeps(p) == \A i \in 1..Len(p) : p[i] = "/"

RECURSIVE rstrip(_)
\* str.rstrip('/')
rstrip(p) ==
    IF p # << >> /\ p[Len(p)] = "/" THEN rstrip(SubSeq(p, 1, Len(p) - 1)) ELSE p

\* p.rfind('/') + 1
LastSep(p) ==
    LET S == {i \in 1..Len(p) : p[i] = "/"}
    IN  IF S = {} THEN 0 ELSE CHOOSE i \in S : \A j \in S : j <= i

\* os.path.dirname(p)
dirname(p) ==
    LET head == SubSeq(p, 1, LastSep(p))
    IN  IF head # << >> /\ ~AllSeps(head) THEN rstrip(head) ELSE head

\* pathlib.Path(p).parent, for p without "." segments or doubled separators
PathParent(p) ==
    IF p = << >> \/ p = <<".">> THEN <<".">>
    ELSE IF AllSeps(p) THEN p
    ELSE IF dirname(p) = << >> THEN <<".">>
    ELSE dirname(p)

\* os.path.join(a, b)
join(a, b) ==
    IF b # << >> /\ b[1] = "/" THEN b
    ELSE IF a = << >> \/ a[Len(a)] = "/" THEN a \o b
    ELSE a \o <<"/">> \o b

\* inner, lines 20-26: the pipeline directory of the wrapped function.
pipeline_dir_of(module_file) ==
    IF module_file # None
    THEN PathParent(dirname(Val(module_file)))
    ELSE DefaultDir

\* inner, the finally clause with the restore dropped when the saved value is
\* a directory: the variable is reset to unset instead.
inner_finally_reset(frame) == None

\* inner, lines 32-33: the value the finally clause sets the variable to.
inner_finally(frame) == frame.original_ctx

\* get_asset_path reading no context variable: always under '/kaggle/working'.
get_asset_path_unscoped(path, ctxValue) ==
    LET assets_dir == join(DefaultDir, <<"assets">>)
    IN  [assets_dir |-> assets_dir, result |-> join(assets_dir, path)]

\* get_asset_path(path), lines 38-41: the assets directory and the result.
get_asset_path(path, ctxValue) ==
    LET pipeline_dir == IF ctxValue # None THEN Val(ctxValue) ELSE DefaultDir
        assets_dir == join(pipeline_dir, <<"assets">>)
    IN  [assets_dir |-> assets_dir, result |-> join(assets_dir, path)]

\* inner, lines 20-30: a wrapped function is called; the variable is saved
\* and set, and the function body starts.
Enter ==
    /\ ~exc
    /\ Len(stack) < MaxDepth
    /\ \E module_file \in ModuleFiles :
          LET pipeline_dir == pipeline_dir_of(module_file)
          IN  /\ stack' = Append(stack, [pipeline_dir |-> pipeline_dir,
                                         original_ctx |-> ctx,
                                         before |-> ctx])
              /\ ctx' = Some(pipeline_dir)
    /\ UNCHANGED <<registryVars, errorVars, exc, made_dirs, lastExit, lastAsset>>

\* inner, lines 31-34: the innermost function body returns; the finally
\* clause runs and inner returns.
Return ==
    /\ ~exc
    /\ stack # << >>
    /\ LET frame == stack[Len(stack)]
       IN  /\ ctx' = inner_finally(frame)
           /\ lastExit' = Some([how |-> "return", before |-> frame.before,
                                after |-> ctx', depth |-> Len(stack)])
    /\ stack' = SubSeq(stack, 1, Len(stack) - 1)
    /\ UNCHANGED <<registryVars, errorVars, exc, made_dirs, lastAsset>>

\* inner, lines 31-33: the innermost function body raises, or lets the
\* exception of a call it made pass; the finally clause runs and the exception
\* leaves inner.
ExitRaise ==
    /\ stack # << >>
    /\ LET frame == stack[Len(stack)]
       IN  /\ ctx' = inner_finally(frame)
           /\ lastExit' = Some([how |-> "raise", before |-> frame.before,
                                after |-> ctx', depth |-> Len(stack)])
    /\ stack' = SubSeq(stack, 1, Len(stack) - 1)
    /\ exc' = TRUE
    /\ UNCHANGED <<registryVars, errorVars, made_dirs, lastAsset>>

\* The caller of a call that raised (a wrapped function body, or the code
\* outside every scoped call) handles the exception.
Catch ==
    /\ exc
    /\ exc' = FALSE
    /\ UNCHANGED <<registryVars, errorVars, ctx, stack, made_dirs, lastExit, lastAsset>>

\* get_asset_path(path) is called from the code currently running.
GetAssetPath ==
    /\ ~exc
    /\ \E path \in AssetPaths :
          LET r == get_asset_path(path, ctx)
          IN  /\ made_dirs' = made_dirs \cup {r.assets_dir}
              /\ lastAsset' = Some([path |-> path,
                                    scope |-> IF stack = << >> THEN None
                                              ELSE Some(stack[Len(stack)].pipeline_dir),
                                    result |-> r.result])
    /\ UNCHANGED <<registryVars, errorVars, ctx, stack, exc, lastExit>>

NextPipeline == Enter \/ Return \/ ExitRaise \/ Catch \/ GetAssetPath

SpecPipeline == Init /\ [][NextPipeline]_vars

(***************************************************************************)
(* Claims about the pipeline scoping helpers.                              *)
(***************************************************************************)

\* C8: when a pipeline_scoped call finishes, by returning or by raising, the
\* context variable holds the value it held right before the call started;
\* with no scoped call left it is unset.
C8_ContextRestoredOnExit ==
    /\ lastExit # None => Val(lastExit).after = Val(lastExit).before
    /\ (lastExit # None /\ stack = << >>) => ctx = None

\* A nested call ended by raising and the variable is back to the directory
\* of the enclosing call, which is still running.
C8_Witness ==
    /\ lastExit # None
    /\ Val(lastExit).how = "raise"
    /\ Val(lastExit).depth = 2
    /\ Val(lastExit).before # None
    /\ stack # << >>
    /\ ctx = Some(stack[Len(stack)].pipeline_dir)

RECURSIVE Collapse(_)
\* The path with runs of separators reduced to one separator.
Collapse(p) ==
    IF Len(p) < 2 THEN p
    ELSE IF p[1] = "/" /\ p[2] = "/" THEN Collapse(Tail(p))
    ELSE <<p[1]>> \o Collapse(Tail(p))

\* <dir>/assets/p
UnderAssets(dir, p) == Collapse(dir \o <<"/", "assets", "/">> \o p)

ScopeDir(a) == IF a.scope # None THEN Val(a.scope) ELSE DefaultDir

IsAbsolute(p) == p # << >> /\ p[1] = "/"

\* C9 as stated: get_asset_path(p) is <dir>/assets/p for every p, <dir> being
\* the directory of the innermost scoped call executing, or the default.
C9_AssetPathUnderScopeDir ==
    lastAsset # None =>
        Val(lastAsset).result = UnderAssets(ScopeDir(Val(lastAsset)), Val(lastAsset).path)

\* C9 amended: the same for every relative p; an absolute p is returned as it
\* is.
C9_AssetPathUnderScopeDirRelative ==
    lastAsset # None =>
        LET a == Val(lastAsset)
        IN  IF IsAbsolute(a.path)
            THEN a.result = a.path
            ELSE a.result = UnderAssets(ScopeDir(a), a.path)

\* get_asset_path was called with a relative path inside a scoped call nested
\* in another one, after a first nested call had finished.
C9_Witness ==
    /\ lastAsset # None
    /\ ~IsAbsolute(Val(lastAsset).path)
    /\ Val(lastAsset).scope = Some(<<"/", "p">>)
    /\ Val(lastAsset).result = <<"/", "p", "/", "assets", "/", "sub", "/", "x.bin">>
    /\ lastExit # None
    /\ Len(stack) = 2

====
